---- MODULE Spec2Model ----
(***************************************************************************)
(* Model of ParticleLayer (src/src/particle-layer.js): the double-buffered *)
(* particle simulation of deck.gl-particle.                                *)
(*                                                                         *)
(* GPU buffers live in a heap `bufs` (id -> liveness, delete count, data); *)
(* luma.gl Transform objects live in `xfs` (id -> liveness, the two        *)
(* ping-pong bindings, currentIndex).  `state` is the layer's this.state,  *)
(* `props` its this.props.  Every handler of the class is one action; a    *)
(* thrown exception is recorded in `fault` and leaves the writes made      *)
(* before the throw in place, as in JavaScript.  `lastFeedback` is the      *)
(* buffer the latest transform.run of the current transform wrote to.      *)
(***************************************************************************)
EXTENDS Integers, Sequences, FiniteSets, TLC

VARIABLES props, state, bufs, xfs, nAlloc, nRuns, modelAttrs, needsRedraw, lastOp, fault, fatal,
          lastFeedback

vars == <<props, state, bufs, xfs, nAlloc, nRuns, modelAttrs, needsRedraw, lastOp, fault, fatal,
          lastFeedback>>

(* ---------------------------- bounds ----------------------------------- *)

\* largest numParticles explored (the code allows 1..1000000)
MaxParticles == 2
\* largest maxAge explored (the code allows 1..255)
MaxAgeVal == 2
\* number of _setupTransformFeedback calls explored in one behaviour
MaxSetups == 2
\* number of transform runs explored per allocation
MaxRuns == 3
\* largest coordinate value a position component takes
PosMax == 2

(* --------------------------- constants --------------------------------- *)

\* bytes per Float32 element (the "4" of numParticles * 4 * 3)
BytesPerFloat == 4
\* floats per position record (the "3" of numParticles * 4 * 3)
FloatsPerPos == 3

\* JavaScript undefined / null, for references and for numbers
Undefined == -1
\* props.image === null: no velocity field bound
NoImage == 0

BufIds == 1..(3 * MaxSetups)
XfIds == 1..MaxSetups

NumParticlesSet == 1..MaxParticles
MaxAgeSet == 1..MaxAgeVal
ImageSet == {NoImage, 1}
SeedSet == {0, 1}
\* what transform feedback leaves in the slots the kernel does not write
OlderSet == {"zero", "source"}

PropsSet == [numParticles : NumParticlesSet, maxAge : MaxAgeSet,
             animate : BOOLEAN, image : ImageSet]

(* ----------------------- typed arrays and buffers ----------------------- *)

\* new Float32Array(n): n zeros
Float32Zeros(n) == [i \in 1..n |-> 0]

RECURSIVE Flat(_)
\* Array.prototype.flat() on an array of arrays
Flat(rows) == IF rows = <<>> THEN <<>> ELSE Head(rows) \o Flat(Tail(rows))

\* mutant: the two loops exchanged, one row per particle
AgesDataMut(numParticles, maxAge) ==
  Flat([k \in 1..numParticles |-> [a \in 1..maxAge |-> a - 1]])

\* new Array(maxAge).fill(undefined).map((_, age) => new Array(numParticles).fill(age)).flat()
AgesData(numParticles, maxAge) ==
  Flat([a \in 1..maxAge |-> [k \in 1..numParticles |-> a - 1]])

\* element i (zero based) of a typed array
At(data, i) == data[i + 1]

\* a buffer that does not exist (never created, or deleted)
NoBuffer == [live |-> FALSE, dels |-> 0, data |-> <<>>]

\* new Buffer(gl, data)
NewBuffer(h, id, data) == [h EXCEPT ![id] = [live |-> TRUE, dels |-> 0, data |-> data]]

\* mutant: delete() releases nothing
DeleteBufferMut(h, id) == h

\* buffer.delete()
DeleteBuffer(h, id) ==
  [h EXCEPT ![id] = [live |-> FALSE, dels |-> h[id].dels + 1, data |-> <<>>]]

\* buffer.subData({data}): overwrite the buffer from offset 0 with data
SubData(h, id, data) ==
  [h EXCEPT ![id].data =
     [i \in 1..Len(h[id].data) |-> IF i <= Len(data) THEN data[i] ELSE h[id].data[i]]]

\* byte length of a buffer
ByteLength(h, id) == Len(h[id].data) * BytesPerFloat

\* dst.copyData({sourceBuffer: src, readOffset, writeOffset, size}), offsets in bytes;
\* a range outside either buffer is a GL error and copies nothing
CopyData(h, dst, src, readOffset, writeOffset, size) ==
  IF readOffset + size > ByteLength(h, src) \/ writeOffset + size > ByteLength(h, dst)
  THEN h
  ELSE LET r == readOffset \div BytesPerFloat
           w == writeOffset \div BytesPerFloat
           n == size \div BytesPerFloat
       IN [h EXCEPT ![dst].data =
             [i \in 1..Len(h[dst].data) |->
                IF i - 1 >= w /\ i - 1 < w + n
                THEN At(h[src].data, r + (i - 1 - w))
                ELSE h[dst].data[i]]]

(* ------------------------------ Transform ------------------------------- *)

NoTransform == [live |-> FALSE, dels |-> 0, elementCount |-> 0,
                bindings |-> <<[sourcePosition |-> Undefined, targetPosition |-> Undefined],
                               [sourcePosition |-> Undefined, targetPosition |-> Undefined]>>,
                currentIndex |-> 0]

\* mutant: binding 1 is not exchanged
NewTransformMut(sourcePositions, targetPositions, elementCount) ==
  [live |-> TRUE, dels |-> 0, elementCount |-> elementCount,
   bindings |-> <<[sourcePosition |-> sourcePositions, targetPosition |-> targetPositions],
                  [sourcePosition |-> sourcePositions, targetPosition |-> targetPositions]>>,
   currentIndex |-> 0]

\* new Transform(gl, {sourceBuffers, feedbackBuffers, feedbackMap, elementCount}):
\* binding 0 is as given, binding 1 has the two buffers exchanged (feedbackMap),
\* currentIndex is 0
NewTransform(sourcePositions, targetPositions, elementCount) ==
  [live |-> TRUE, dels |-> 0, elementCount |-> elementCount,
   bindings |-> <<[sourcePosition |-> sourcePositions, targetPosition |-> targetPositions],
                  [sourcePosition |-> targetPositions, targetPosition |-> sourcePositions]>>,
   currentIndex |-> 0]

\* transform.bufferTransform.bindings[currentIndex].sourceBuffers.sourcePosition
CurrentSource(xf) == xf.bindings[xf.currentIndex + 1].sourcePosition
\* transform.bufferTransform.bindings[currentIndex].feedbackBuffers.targetPosition
CurrentTarget(xf) == xf.bindings[xf.currentIndex + 1].targetPosition

\* transform.delete(): the transform's own resources go (its bindings with them),
\* not the buffers it was given
DeleteTransform(xf) == [NoTransform EXCEPT !.dels = xf.dels + 1]

\* mutant: the roles are not exchanged
SwapMut(xf) == xf

\* transform.swap()
Swap(xf) == [xf EXCEPT !.currentIndex = 1 - xf.currentIndex]

\* the position record of a slot
Rec(data, slot) == <<At(data, FloatsPerPos * slot), At(data, FloatsPerPos * slot + 1),
                     At(data, FloatsPerPos * slot + 2)>>

\* the update kernel on one band-0 particle: a dropped particle (x, y) = (0, 0) is
\* reseeded from the seed, any other is moved by the sampled velocity and dropped
\* when it leaves the range
AdvectRec(rec, particleIndex, seed, velocity) ==
  IF rec[1] = 0 /\ rec[2] = 0
  THEN <<1 + ((seed + particleIndex) % PosMax), 1 + (seed % PosMax), 0>>
  ELSE IF rec[1] + velocity > PosMax THEN <<0, 0, 0>>
       ELSE <<rec[1] + velocity, rec[2], rec[3]>>

\* transform.run({uniforms}): elementCount slots are read from the source buffer and
\* written to the feedback buffer; band 0 is advected, the older bands are not written
\* by the kernel and hold whatever transform feedback leaves there
Run(h, xf, numParticles, velocity, seed, older) ==
  LET S == CurrentSource(xf)
      T == CurrentTarget(xf)
      elementCount == xf.elementCount
      out(i) == LET slot == (i - 1) \div FloatsPerPos
                    c == ((i - 1) % FloatsPerPos) + 1
                IN IF slot \div numParticles = 0
                   THEN AdvectRec(Rec(h[S].data, slot), slot % numParticles, seed, velocity)[c]
                   ELSE IF older = "zero" THEN 0 ELSE h[S].data[i]
  IN [h EXCEPT ![T].data =
        [i \in 1..Len(h[T].data) |->
           IF i <= elementCount * FloatsPerPos /\ i <= Len(h[S].data)
           THEN out(i) ELSE h[T].data[i]]]

(* ------------------------------ Init ------------------------------------ *)

EmptyState == [initialized |-> FALSE, numInstances |-> Undefined,
               numAgedInstances |-> Undefined, sourcePositions |-> Undefined,
               targetPositions |-> Undefined, ages |-> Undefined, transform |-> Undefined]

NoAttrs == [instanceSourcePositions |-> Undefined, instanceTargetPositions |-> Undefined,
            instanceAges |-> Undefined]

Init ==
  /\ props \in PropsSet
  /\ state = EmptyState
  /\ bufs = [id \in BufIds |-> NoBuffer]
  /\ xfs = [id \in XfIds |-> NoTransform]
  /\ nAlloc = 0
  /\ nRuns = 0
  /\ modelAttrs = NoAttrs
  /\ needsRedraw = FALSE
  /\ lastOp = "new"
  /\ fault = "none"
  /\ fatal = FALSE
  /\ lastFeedback = Undefined

(* ----------------------------- handlers --------------------------------- *)

\* The handlers are functions of a world w = [state, bufs, xfs, fault]: what the
\* handler reads and writes, and the exception it ends with ("none" when it returns).
World == [state |-> state, bufs |-> bufs, xfs |-> xfs, fault |-> "none"]

Throw(w, e) == [w EXCEPT !.fault = e]

\* mutant: the objects are deleted and the state keeps referring to them
deleteTransformFeedbackMut(w) ==
  LET s == w.state IN
  IF ~s.initialized THEN w
  ELSE IF s.sourcePositions = Undefined THEN Throw(w, "TypeError")
  ELSE [w EXCEPT !.bufs = DeleteBuffer(DeleteBuffer(DeleteBuffer(w.bufs,
                              s.sourcePositions), s.targetPositions), s.ages),
                 !.xfs[s.transform] = DeleteTransform(w.xfs[s.transform])]

\* mutant: the test of initialized is dropped
deleteTransformFeedbackUnguarded(w) ==
  LET s == w.state IN
  IF s.sourcePositions = Undefined THEN Throw(w, "TypeError")
  ELSE [state |-> [s EXCEPT !.initialized = TRUE, !.sourcePositions = Undefined,
                            !.targetPositions = Undefined, !.ages = Undefined,
                            !.transform = Undefined],
        bufs |-> DeleteBuffer(DeleteBuffer(DeleteBuffer(w.bufs,
                     s.sourcePositions), s.targetPositions), s.ages),
        xfs |-> [w.xfs EXCEPT ![s.transform] = DeleteTransform(w.xfs[s.transform])],
        fault |-> "none"]

\* _deleteTransformFeedback()
deleteTransformFeedback(w) ==
  LET s == w.state IN
  IF ~s.initialized THEN w
  ELSE IF s.sourcePositions = Undefined THEN Throw(w, "TypeError")
  ELSE LET b1 == DeleteBuffer(w.bufs, s.sourcePositions) IN
  IF s.targetPositions = Undefined THEN Throw([w EXCEPT !.bufs = b1], "TypeError")
  ELSE LET b2 == DeleteBuffer(b1, s.targetPositions) IN
  IF s.ages = Undefined THEN Throw([w EXCEPT !.bufs = b2], "TypeError")
  ELSE LET b3 == DeleteBuffer(b2, s.ages) IN
  IF s.transform = Undefined THEN Throw([w EXCEPT !.bufs = b3], "TypeError")
  ELSE [state |-> [s EXCEPT !.initialized = TRUE, !.sourcePositions = Undefined,
                            !.targetPositions = Undefined, !.ages = Undefined,
                            !.transform = Undefined],
        bufs |-> b3,
        xfs |-> [w.xfs EXCEPT ![s.transform] = DeleteTransform(w.xfs[s.transform])],
        fault |-> "none"]

\* mutant: every band is aged
NumAgedInstancesMut(numParticles, maxAge) == numParticles * maxAge

\* numAgedInstances: the instances of every band but the last
NumAgedInstances(numParticles, maxAge) == numParticles * (maxAge - 1)

\* _setupTransformFeedback(); g numbers the call and names the objects it creates,
\* failAt is the allocation that throws (0: none, 1: sourcePositions,
\* 2: targetPositions, 3: ages, 4: transform)
setupTransformFeedback(w, p, g, failAt) ==
  LET d == IF w.state.initialized THEN deleteTransformFeedback(w) ELSE w
      numInstances == p.numParticles * p.maxAge
      numAgedInstances == NumAgedInstances(p.numParticles, p.maxAge)
      sourcePositions == 3 * g - 2
      targetPositions == 3 * g - 1
      ages == 3 * g
      b1 == NewBuffer(d.bufs, sourcePositions, Float32Zeros(numInstances * 3))
      b2 == NewBuffer(b1, targetPositions, Float32Zeros(numInstances * 3))
      b3 == NewBuffer(b2, ages, AgesData(p.numParticles, p.maxAge))
  IN IF d.fault # "none" THEN d
     ELSE IF failAt = 1 THEN Throw(d, "AllocError")
     ELSE IF failAt = 2 THEN Throw([d EXCEPT !.bufs = b1], "AllocError")
     ELSE IF failAt = 3 THEN Throw([d EXCEPT !.bufs = b2], "AllocError")
     ELSE IF failAt = 4 THEN Throw([d EXCEPT !.bufs = b3], "AllocError")
     ELSE [state |-> [initialized |-> TRUE, numInstances |-> numInstances,
                      numAgedInstances |-> numAgedInstances,
                      sourcePositions |-> sourcePositions,
                      targetPositions |-> targetPositions,
                      ages |-> ages, transform |-> g],
           bufs |-> b3,
           xfs |-> [d.xfs EXCEPT ![g] = NewTransform(sourcePositions, targetPositions,
                                                     numInstances)],
           fault |-> "none"]

\* mutant: the test for a bound image is dropped
HasImageMut(p) == TRUE

\* if (!image) return; negated: a velocity field is bound
HasImage(p) == p.image # NoImage

\* mutant: the offset of one float per particle instead of one record
AgeWriteOffsetMut(numParticles) == numParticles * 4

\* writeOffset of the aging copy, in bytes: one band
AgeWriteOffset(numParticles) == numParticles * 4 * 3

\* mutant: the copy is one record longer
AgeCopySizeMut(numAgedInstances) == (numAgedInstances + 1) * 4 * 3

\* size of the aging copy, in bytes: all bands but one
AgeCopySize(numAgedInstances) == numAgedInstances * 4 * 3

\* _runTransformFeedback(); the viewport uniforms feed the kernel alone and are
\* represented by the velocity the image yields and the seed
runTransformFeedback(w, p, seed, older) ==
  IF ~HasImage(p) THEN w
  ELSE IF w.state.transform = Undefined THEN Throw(w, "TypeError")
  ELSE LET xf == w.xfs[w.state.transform]
           sourcePositions == CurrentSource(xf)
           targetPositions == CurrentTarget(xf)
           aged == CopyData(w.bufs, sourcePositions, targetPositions, 0,
                            AgeWriteOffset(p.numParticles),
                            AgeCopySize(w.state.numAgedInstances))
           ran == Run(aged, xf, p.numParticles, p.image, seed, older)
       IN [w EXCEPT !.bufs = ran, !.xfs[w.state.transform] = Swap(xf)]

\* mutant: draw() steps whatever animate says
drawFrameMut(w, p, seed, older) == runTransformFeedback(w, p, seed, older)

\* draw() up to model.setAttributes(): the step runs only while animate is set
drawFrame(w, p, seed, older) ==
  IF p.animate THEN runTransformFeedback(w, p, seed, older) ELSE w

\* mutant: one zero per instance instead of three
ClearLengthMut(numInstances) == IF numInstances = Undefined THEN 0 ELSE numInstances

\* length of the zero array clear() writes: numInstances * 3 (undefined * 3 is NaN,
\* and new Float32Array(NaN) is empty)
ClearLength(numInstances) == IF numInstances = Undefined THEN 0 ELSE numInstances * 3

\* mutant: clear() zeroes the age buffer in place of the target positions
clearBuffersMut(w) ==
  LET s == w.state
      n == ClearLength(s.numInstances)
  IN IF s.sourcePositions = Undefined THEN Throw(w, "TypeError")
     ELSE [w EXCEPT !.bufs = SubData(SubData(w.bufs, s.sourcePositions, Float32Zeros(n)),
                                     s.ages, Float32Zeros(n))]

\* the body of clear() up to setNeedsRedraw()
clearBuffers(w) ==
  LET s == w.state
      n == ClearLength(s.numInstances)
  IN IF s.sourcePositions = Undefined THEN Throw(w, "TypeError")
     ELSE LET b1 == SubData(w.bufs, s.sourcePositions, Float32Zeros(n)) IN
     IF s.targetPositions = Undefined THEN Throw([w EXCEPT !.bufs = b1], "TypeError")
     ELSE [w EXCEPT !.bufs = SubData(b1, s.targetPositions, Float32Zeros(n))]

(* ------------------------------ actions --------------------------------- *)

\* an allocation failure is fatal: it is surfaced to the caller, who from then on
\* does nothing with the layer but tear it down
Apply(w) ==
  /\ state' = w.state
  /\ bufs' = w.bufs
  /\ xfs' = w.xfs
  /\ fault' = w.fault
  /\ fatal' = (fatal \/ w.fault = "AllocError")

\* the layer holds buffers: it is active.  The framework calls initializeState on a
\* layer that is not active, and updateState and draw only on one that is; step(),
\* clear() and the teardown can be called at any time.
Active == state.sourcePositions # Undefined

\* does _runTransformFeedback reach transform.run() in the current state
WillRun == HasImage(props) /\ state.transform # Undefined

\* the feedback buffer of the latest run, forgotten with the transform that ran
Forget(w) ==
  lastFeedback' = IF w.state.transform = state.transform THEN lastFeedback ELSE Undefined

\* the test of updateState: numParticles or maxAge differs from oldProps
NeedsRealloc(p, oldProps) ==
  p.numParticles # oldProps.numParticles \/ p.maxAge # oldProps.maxAge

\* initializeState(): the activation
InitializeState ==
  /\ ~fatal
  /\ ~Active
  /\ nAlloc < MaxSetups
  /\ \E failAt \in 0..4 :
       LET w == setupTransformFeedback(World, props, nAlloc + 1, failAt) IN
       /\ Apply(w)
       /\ nAlloc' = IF state.initialized /\ w.fault = "TypeError" THEN nAlloc ELSE nAlloc + 1
       /\ nRuns' = IF w.fault = "none" THEN 0 ELSE nRuns
       /\ Forget(w)
  /\ lastOp' = "initializeState"
  /\ UNCHANGED <<props, modelAttrs, needsRedraw>>

\* the oldProps argument of an update that no update preceded: an object without
\* properties, every property of which reads undefined
EmptyProps == [numParticles |-> Undefined, maxAge |-> Undefined,
               animate |-> Undefined, image |-> Undefined]

\* the oldProps argument the framework passes to updateState: the props of the
\* previous update, or the empty object
OldPropsSet == {props, EmptyProps}

\* updateState({props, oldProps}): p are the new props, oldProps the argument the
\* test is made against; lastOp records whether numParticles or maxAge of the new
\* props differ from those of the oldProps argument.
UpdateState ==
  /\ ~fatal
  /\ Active
  /\ \E p \in PropsSet, oldProps \in OldPropsSet :
    /\ props' = p
    /\ lastOp' = IF p.numParticles = oldProps.numParticles /\ p.maxAge = oldProps.maxAge
                 THEN "updateState" ELSE "updateState:resize"
    /\ IF NeedsRealloc(p, oldProps)
       THEN /\ nAlloc < MaxSetups
            /\ \E failAt \in 0..4 :
                 LET w == setupTransformFeedback(World, p, nAlloc + 1, failAt) IN
                 /\ Apply(w)
                 /\ nAlloc' = IF state.initialized /\ w.fault = "TypeError"
                              THEN nAlloc ELSE nAlloc + 1
                 /\ nRuns' = IF w.fault = "none" THEN 0 ELSE nRuns
                 /\ Forget(w)
       ELSE /\ Apply(World)
            /\ UNCHANGED <<nAlloc, nRuns, lastFeedback>>
    /\ UNCHANGED <<modelAttrs, needsRedraw>>

\* finalizeState(): the teardown
FinalizeState ==
  /\ Apply(deleteTransformFeedback(World))
  /\ Forget(deleteTransformFeedback(World))
  /\ lastOp' = "finalizeState"
  /\ UNCHANGED <<props, nAlloc, nRuns, modelAttrs, needsRedraw>>

\* draw({uniforms}): the per-frame hook
Draw ==
  /\ ~fatal
  /\ Active
  /\ (props.animate /\ WillRun) => nRuns < MaxRuns
  /\ \E seed \in SeedSet, older \in OlderSet :
       LET w == drawFrame(World, props, seed, older)
       IN /\ Apply(w)
          /\ modelAttrs' = IF w.fault = "none"
                           THEN [instanceSourcePositions |-> state.sourcePositions,
                                 instanceTargetPositions |-> state.targetPositions,
                                 instanceAges |-> state.ages]
                           ELSE modelAttrs
  /\ nRuns' = IF props.animate /\ WillRun THEN nRuns + 1 ELSE nRuns
  /\ lastFeedback' = IF props.animate /\ WillRun
                     THEN CurrentTarget(xfs[state.transform]) ELSE lastFeedback
  /\ lastOp' = "draw"
  /\ UNCHANGED <<props, nAlloc, needsRedraw>>

\* step()
Step ==
  /\ ~fatal
  /\ WillRun => nRuns < MaxRuns
  /\ \E seed \in SeedSet, older \in OlderSet :
       LET w == runTransformFeedback(World, props, seed, older) IN
       /\ Apply(w)
       /\ needsRedraw' = IF w.fault = "none" THEN TRUE ELSE needsRedraw
  /\ nRuns' = IF WillRun THEN nRuns + 1 ELSE nRuns
  /\ lastFeedback' = IF WillRun THEN CurrentTarget(xfs[state.transform]) ELSE lastFeedback
  /\ lastOp' = "step"
  /\ UNCHANGED <<props, nAlloc, modelAttrs>>

\* clear()
Clear ==
  /\ ~fatal
  /\ LET w == clearBuffers(World) IN
       /\ Apply(w)
       /\ needsRedraw' = IF w.fault = "none" THEN TRUE ELSE needsRedraw
  /\ lastOp' = "clear"
  /\ UNCHANGED <<props, nAlloc, nRuns, modelAttrs, lastFeedback>>

Next ==
  \/ InitializeState
  \/ UpdateState
  \/ FinalizeState
  \/ Draw
  \/ Step
  \/ Clear

Spec == Init /\ [][Next]_vars

(* ------------------------------ claims ---------------------------------- *)

\* age band a of a position array holding numParticles particles per band
Band(data, a, numParticles) ==
  SubSeq(data, a * numParticles * FloatsPerPos + 1, (a + 1) * numParticles * FloatsPerPos)

AllZero(data) == \A i \in 1..Len(data) : data[i] = 0

\* the transform the state holds
Xf == xfs[state.transform]

\* this step is a call that reaches the shift-and-advect cycle
CycleRuns ==
  /\ lastOp' = "step" \/ (lastOp' = "draw" /\ props.animate)
  /\ WillRun

\* C1: one shift-and-advect cycle, with S and T the source and target of the binding
\* in force before it: afterwards band a+1 of S is what band a of T was, for every a
\* in 0..maxAge-2, and band 0 of T is the advected band 0 of S.
C1_AgingShift ==
  [][CycleRuns =>
       LET S == CurrentSource(Xf)
           T == CurrentTarget(Xf)
           N == props.numParticles
           M == props.maxAge
       IN /\ \A a \in 0..(M - 2) :
               Band(bufs'[S].data, a + 1, N) = Band(bufs[T].data, a, N)
          /\ \E seed \in SeedSet : \A q \in 0..(N - 1) :
               Rec(bufs'[T].data, q) = AdvectRec(Rec(bufs[S].data, q), q, seed, props.image)
    ]_vars

\* a step has just shifted two distinct non-zero particle records into band 1 of its
\* source (the target of the binding now in force), with two bands of two particles
C1_Witness ==
  /\ lastOp = "step" /\ fault = "none" /\ Active /\ HasImage(props)
  /\ props.numParticles = 2 /\ props.maxAge = 2
  /\ LET d == bufs[CurrentTarget(Xf)].data
     IN /\ Rec(d, 2)[1] # 0
        /\ Rec(d, 3)[1] # 0
        /\ Rec(d, 2) # Rec(d, 3)

\* the last call was one that ran _setupTransformFeedback to its end
SetupDone ==
  /\ lastOp \in {"initializeState", "updateState:resize"}
  /\ fault = "none"

\* C2: right after _setupTransformFeedback both position buffers hold
\* numParticles * maxAge * 3 zeros, the age buffer holds numParticles * maxAge
\* elements, and age[i] = floor(i / numParticles) for every slot i.
C2_Allocation ==
  SetupDone =>
    LET N == props.numParticles
        M == props.maxAge
        src == bufs[state.sourcePositions]
        tgt == bufs[state.targetPositions]
        age == bufs[state.ages]
    IN /\ src.live /\ tgt.live /\ age.live
       /\ Len(src.data) = N * M * 3 /\ AllZero(src.data)
       /\ Len(tgt.data) = N * M * 3 /\ AllZero(tgt.data)
       /\ Len(age.data) = N * M
       /\ \A i \in 0..(N * M - 1) : At(age.data, i) = i \div N

C2_Witness ==
  /\ SetupDone
  /\ props.numParticles = 2 /\ props.maxAge = 2
  /\ At(bufs[state.ages].data, 3) = 1

\* C3: the teardown is idempotent: a second teardown, after the first has released
\* the buffers, raises no fault, deletes nothing and leaves the state as it was.
C3_TeardownIdempotent ==
  [][(lastOp = "finalizeState" /\ fault = "none" /\ lastOp' = "finalizeState") =>
       (fault' = "none" /\ state' = state /\ bufs' = bufs /\ xfs' = xfs)]_vars

\* this step is an updateState in which numParticles or maxAge changed and every
\* allocation succeeded
ResizeDone == lastOp' = "updateState:resize" /\ fault' = "none"

\* C4: an update that changes numParticles or maxAge releases the old buffers and
\* the old transform and allocates new ones sized for the new values, all position
\* elements zero and the roles reset, whatever was in the old buffers.
C4_ResizeResets ==
  [][ResizeDone =>
       LET olds == {state.sourcePositions, state.targetPositions, state.ages}
           news == {state'.sourcePositions, state'.targetPositions, state'.ages}
           N == props'.numParticles
           M == props'.maxAge
           xf == xfs'[state'.transform]
       IN /\ \A b \in olds : ~bufs'[b].live /\ bufs'[b].dels = 1
          /\ ~xfs'[state.transform].live
          /\ olds \cap news = {}
          /\ \A b \in news : ~bufs[b].live /\ bufs[b].dels = 0 /\ bufs'[b].live
          /\ state'.transform # state.transform
          /\ bufs'[state'.sourcePositions].data = Float32Zeros(N * M * 3)
          /\ bufs'[state'.targetPositions].data = Float32Zeros(N * M * 3)
          /\ state'.numInstances = N * M
          /\ xf.live /\ xf.currentIndex = 0
          /\ CurrentSource(xf) = state'.sourcePositions
          /\ CurrentTarget(xf) = state'.targetPositions
    ]_vars

\* a resize has just replaced the first allocation, which a draw had handed to the
\* renderer and which had been stepped or cleared
C4_Witness ==
  /\ lastOp = "updateState:resize" /\ fault = "none"
  /\ needsRedraw
  /\ modelAttrs.instanceSourcePositions = 1
  /\ ~bufs[1].live /\ bufs[4].live
  /\ state.sourcePositions = 4

\* C5: an update whose props have the numParticles and maxAge of the props in force
\* before it allocates and deletes nothing and leaves the buffers, the transform and
\* the roles untouched.
C5_UpdateKeeps ==
  [][(lastOp' \in {"updateState", "updateState:resize"}
        /\ props'.numParticles = props.numParticles /\ props'.maxAge = props.maxAge) =>
       (fault' = "none" /\ state' = state /\ bufs' = bufs /\ xfs' = xfs
          /\ nAlloc' = nAlloc)]_vars

\* C6: clear() on an active layer zeroes every element of both position buffers and
\* leaves the age buffer, the configuration, numInstances and the roles as they were.
C6_ClearZeroes ==
  [][(lastOp' = "clear" /\ Active) =>
       /\ fault' = "none"
       /\ bufs'[state.sourcePositions].data = Float32Zeros(state.numInstances * 3)
       /\ bufs'[state.targetPositions].data = Float32Zeros(state.numInstances * 3)
       /\ Len(bufs[state.sourcePositions].data) = state.numInstances * 3
       /\ Len(bufs[state.targetPositions].data) = state.numInstances * 3
       /\ bufs'[state.ages] = bufs[state.ages]
       /\ props' = props /\ state' = state /\ xfs' = xfs
    ]_vars

\* clear() has just run on a layer that was stepped three times and whose roles are
\* swapped
C6_Witness ==
  /\ lastOp = "clear" /\ fault = "none" /\ Active
  /\ nRuns = 3 /\ Xf.currentIndex = 1
  /\ AllZero(bufs[state.sourcePositions].data)
  /\ AllZero(bufs[state.targetPositions].data)
  /\ props.numParticles = 2 /\ props.maxAge = 2

\* C7: a step with no image bound leaves the buffers and the roles as they were.
C7_NoImageNoStep ==
  [][(lastOp' = "step" /\ props.image = NoImage) =>
       (fault' = "none" /\ bufs' = bufs /\ xfs' = xfs /\ state' = state)]_vars

\* step() has just run with no image on a layer whose buffers hold particles
C7_Witness ==
  /\ lastOp = "step" /\ fault = "none" /\ Active /\ props.image = NoImage
  /\ nRuns >= 2
  /\ ~AllZero(bufs[state.sourcePositions].data)
  /\ ~AllZero(bufs[state.targetPositions].data)

\* C8 as stated: while animate is false neither draw() nor step() changes the
\* position buffers or the roles.
C8_FrozenDrawAndStep ==
  [][((lastOp' = "draw" \/ lastOp' = "step") /\ ~props.animate) =>
       (bufs' = bufs /\ xfs' = xfs)]_vars

\* C8 amended: while animate is false draw() changes neither the position buffers
\* nor the roles; step() does not read animate, and with an image bound on an active
\* layer it swaps the roles whatever animate is.
C8_FrozenDraw ==
  [][/\ (lastOp' = "draw" /\ ~props.animate) =>
          (fault' = "none" /\ bufs' = bufs /\ xfs' = xfs /\ state' = state)
     /\ (lastOp' = "step" /\ WillRun) =>
          (fault' = "none" /\ xfs'[state.transform].currentIndex = 1 - Xf.currentIndex)
    ]_vars

\* draw() has just run with animate false and an image bound on a layer whose buffers
\* hold particles
C8_Witness ==
  /\ lastOp = "draw" /\ fault = "none" /\ Active
  /\ ~props.animate /\ HasImage(props)
  /\ nRuns >= 1 /\ nRuns < MaxRuns
  /\ ~AllZero(bufs[state.targetPositions].data)
  /\ modelAttrs.instanceSourcePositions = state.sourcePositions

\* C9: a step while the layer holds no buffers does not fault on their absence: it
\* changes nothing, or it signals a precondition violation of its own.
C9_StepWithoutBuffers ==
  [][(lastOp' = "step" /\ ~Active) =>
       \/ fault' = "none" /\ bufs' = bufs /\ xfs' = xfs /\ state' = state
       \/ fault' = "PreconditionViolation"
    ]_vars

\* C10: when an allocation fails in an update that changed numParticles or maxAge,
\* the buffers held before the call are still live, still referenced by the state,
\* and hold what they held.
C10_FailedResizeKeepsBuffers ==
  [][(lastOp' = "updateState:resize" /\ fault' = "AllocError") =>
       /\ state'.sourcePositions = state.sourcePositions
       /\ state'.targetPositions = state.targetPositions
       /\ state'.ages = state.ages
       /\ \A b \in {state.sourcePositions, state.targetPositions, state.ages} :
            bufs'[b].live /\ bufs'[b].data = bufs[b].data
    ]_vars

\* the buffers that are live
LiveBufs == {b \in BufIds : bufs[b].live}

\* C11: when one of the allocations of _setupTransformFeedback fails, no buffer the
\* call has created stays live, and the state refers to none.
C11_AllocationAtomic ==
  [][(lastOp' \in {"initializeState", "updateState:resize"} /\ fault' = "AllocError") =>
       /\ \A b \in BufIds : bufs'[b].live => bufs[b].live
       /\ state'.sourcePositions = Undefined
       /\ state'.targetPositions = Undefined
       /\ state'.ages = Undefined
    ]_vars

\* C12: whenever the layer holds buffers, the age buffer is live, has one element per
\* instance, and element i is floor(i / numParticles) for the numParticles in force.
C12_AgesInvariant ==
  Active =>
    LET N == props.numParticles
        M == props.maxAge
        d == bufs[state.ages].data
    IN /\ bufs[state.ages].live
       /\ Len(d) = N * M
       /\ \A i \in 0..(N * M - 1) : At(d, i) = i \div N

\* after a reallocation, three cycles, a frame and a clear, with two bands of two
\* particles: the age buffer has been next to every operation that writes buffers
C12_Witness ==
  /\ lastOp = "clear" /\ fault = "none" /\ Active
  /\ nAlloc = 2 /\ nRuns = 3
  /\ modelAttrs.instanceAges = state.ages
  /\ props.numParticles = 2 /\ props.maxAge = 2
  /\ At(bufs[state.ages].data, 3) = 1

\* C13: a teardown while initialized is false returns without a fault, deletes
\* nothing and leaves the state as it was.
C13_TeardownUninitialized ==
  [][(lastOp' = "finalizeState" /\ ~state.initialized) =>
       (fault' = "none" /\ state' = state /\ bufs' = bufs /\ xfs' = xfs)]_vars

\* a teardown of a layer that never allocated has returned
C13_Witness ==
  /\ lastOp = "finalizeState" /\ fault = "none"
  /\ ~state.initialized /\ nAlloc = 0 /\ state = EmptyState

\* C14 as stated: of two consecutive steps that run the cycle on the same buffers,
\* the second copies its aging shift from the buffer the first advected into.
C14_ShiftReadsFeedback ==
  [][(lastOp = "step" /\ lastOp' = "step" /\ WillRun /\ lastFeedback # Undefined) =>
       CurrentTarget(Xf) = lastFeedback]_vars

\* C14: a cycle that follows an earlier cycle on the same buffers has as its source,
\* which its aging shift copies into and its advection reads, the buffer the earlier
\* advection wrote; the shift copies from the other buffer, and the advection writes
\* that other buffer next.
C14_ShiftWritesFeedback ==
  [][(CycleRuns /\ lastFeedback # Undefined) =>
       /\ CurrentSource(Xf) = lastFeedback
       /\ CurrentTarget(Xf) # lastFeedback
       /\ lastFeedback' = CurrentTarget(Xf)
    ]_vars

\* a second consecutive step has run: it advected into the buffer the state calls
\* sourcePositions, the first having advected into targetPositions
C14_Witness ==
  /\ lastOp = "step" /\ fault = "none" /\ Active /\ HasImage(props)
  /\ nRuns = 2
  /\ lastFeedback = state.sourcePositions
  /\ ~AllZero(bufs[state.targetPositions].data)

\* the transform of the state after the step
XfNext == xfs'[state'.transform]

\* C15 as stated: a frame hands the renderer the source and the target of the
\* binding in force after the latest swap, in that order.
C15_DrawHandsCurrentRoles ==
  [][(lastOp' = "draw" /\ fault' = "none") =>
       /\ modelAttrs'.instanceSourcePositions = CurrentSource(XfNext)
       /\ modelAttrs'.instanceTargetPositions = CurrentTarget(XfNext)
    ]_vars

\* C15: a frame hands the renderer the buffers the state names sourcePositions,
\* targetPositions and ages; the two position buffers are the two buffers of the
\* binding in force, and they are its source and target in that order exactly when
\* the number of cycles run since the allocation is even.
C15_DrawHandsStateBuffers ==
  [][(lastOp' = "draw" /\ fault' = "none") =>
       /\ modelAttrs'.instanceSourcePositions = state'.sourcePositions
       /\ modelAttrs'.instanceTargetPositions = state'.targetPositions
       /\ modelAttrs'.instanceAges = state'.ages
       /\ {modelAttrs'.instanceSourcePositions, modelAttrs'.instanceTargetPositions}
            = {CurrentSource(XfNext), CurrentTarget(XfNext)}
       /\ (modelAttrs'.instanceSourcePositions = CurrentSource(XfNext)) <=> (nRuns' % 2 = 0)
    ]_vars

\* a frame drawn after an odd number of cycles: the renderer's source positions are
\* the target of the binding in force
C15_Witness ==
  /\ lastOp = "draw" /\ fault = "none" /\ Active
  /\ nRuns = 3
  /\ modelAttrs.instanceSourcePositions = state.sourcePositions
  /\ modelAttrs.instanceSourcePositions = CurrentTarget(Xf)

\* C16: an activation that follows a teardown raises no fault of the layer's own
\* and, its allocations succeeding, ends holding a new set of live buffers: zero
\* positions and the ages of the layout.
C16_ReactivationValid ==
  [][(lastOp' = "initializeState" /\ state.initialized /\ ~Active) =>
       /\ fault' # "TypeError"
       /\ fault' = "none" =>
            /\ state'.sourcePositions # Undefined
            /\ bufs'[state'.sourcePositions].live
            /\ AllZero(bufs'[state'.sourcePositions].data)
            /\ AllZero(bufs'[state'.targetPositions].data)
            /\ bufs'[state'.ages].data = AgesData(props.numParticles, props.maxAge)
    ]_vars

\* C17: no buffer and no transform is deleted twice, at most one set of three
\* buffers is live, and none is live once a teardown has been called.
C17_OneSetDeletedOnce ==
  /\ \A b \in BufIds : bufs[b].dels <= 1
  /\ \A t \in XfIds : xfs[t].dels <= 1
  /\ Cardinality(LiveBufs) <= 3
  /\ lastOp = "finalizeState" => (LiveBufs = {} /\ \A t \in XfIds : ~xfs[t].live)

\* C18: with maxAge = 1 a cycle has numAgedInstances = 0 and a copy of size zero;
\* the shift changes nothing, and the source of the cycle is after the cycle what
\* it was before.
C18_SingleBandNoShift ==
  [][(CycleRuns /\ props.maxAge = 1) =>
       LET S == CurrentSource(Xf)
           T == CurrentTarget(Xf)
       IN /\ state.numAgedInstances = 0
          /\ AgeCopySize(state.numAgedInstances) = 0
          /\ CopyData(bufs, S, T, 0, AgeWriteOffset(props.numParticles),
                      AgeCopySize(state.numAgedInstances)) = bufs
          /\ bufs'[S] = bufs[S]
    ]_vars

\* a step has run on a single band of two particles whose positions are not zero
C18_Witness ==
  /\ lastOp = "step" /\ fault = "none" /\ Active /\ HasImage(props)
  /\ props.maxAge = 1 /\ props.numParticles = 2
  /\ nRuns >= 2
  /\ ~AllZero(bufs[CurrentTarget(Xf)].data)

\* C19: while the layer holds buffers they are three distinct live buffers, its
\* transform is live and its two bindings are the two position buffers of the state,
\* one way and the other; when it holds none, the state refers to no buffer and no
\* transform; and what a frame has handed to the renderer is live.
C19_NoDeletedBufferUsed ==
  /\ Active =>
       /\ state.targetPositions # Undefined /\ state.ages # Undefined
       /\ state.transform # Undefined
       /\ Cardinality({state.sourcePositions, state.targetPositions, state.ages}) = 3
       /\ bufs[state.sourcePositions].live
       /\ bufs[state.targetPositions].live
       /\ bufs[state.ages].live
       /\ Xf.live
       /\ Xf.bindings =
            <<[sourcePosition |-> state.sourcePositions,
               targetPosition |-> state.targetPositions],
              [sourcePosition |-> state.targetPositions,
               targetPosition |-> state.sourcePositions]>>
  /\ ~Active =>
       /\ state.targetPositions = Undefined /\ state.ages = Undefined
       /\ state.transform = Undefined
  /\ (lastOp = "draw" /\ fault = "none") =>
       /\ bufs[modelAttrs.instanceSourcePositions].live
       /\ bufs[modelAttrs.instanceTargetPositions].live
       /\ bufs[modelAttrs.instanceAges].live

\* a frame drawn on the second set of buffers after cycles on it, the first set
\* deleted
C19_Witness ==
  /\ lastOp = "draw" /\ fault = "none" /\ Active
  /\ nAlloc = 2 /\ nRuns >= 1
  /\ bufs[1].dels = 1 /\ ~bufs[1].live
  /\ modelAttrs.instanceSourcePositions = state.sourcePositions
  /\ state.sourcePositions = 4

\* C20: in every cycle the aging copy reads bytes [0, N*(M-1)*12) of the target and
\* writes bytes [N*12, N*M*12) of the source, both buffers being N*M*12 bytes long,
\* with N the numParticles in force and numAgedInstances as stored; band 0 of the
\* source is after the cycle what it was before.
C20_CopyInBounds ==
  [][CycleRuns =>
       LET S == CurrentSource(Xf)
           T == CurrentTarget(Xf)
           N == props.numParticles
           M == props.maxAge
           rec == BytesPerFloat * FloatsPerPos
           size == AgeCopySize(state.numAgedInstances)
           writeOffset == AgeWriteOffset(N)
       IN /\ size = N * (M - 1) * rec
          /\ writeOffset = N * rec
          /\ ByteLength(bufs, S) = N * M * rec
          /\ ByteLength(bufs, T) = N * M * rec
          /\ size <= ByteLength(bufs, T)
          /\ writeOffset + size <= ByteLength(bufs, S)
          /\ Band(bufs'[S].data, 0, N) = Band(bufs[S].data, 0, N)
    ]_vars

\* a step on a reallocated set of two bands of two particles has left band 0 of
\* its source, not zero, in place
C20_Witness ==
  /\ lastOp = "step" /\ fault = "none" /\ Active /\ HasImage(props)
  /\ nAlloc = 2 /\ nRuns >= 2
  /\ props.numParticles = 2 /\ props.maxAge = 2
  /\ ~AllZero(Band(bufs[CurrentTarget(Xf)].data, 0, 2))
====
